---- MODULE Spec2Model ----
(***************************************************************************)
(* juice: battery history.  A model of the time-series store (src/db.rs)   *)
(* and of the sampling daemon (src/daemon.rs).                             *)
(*                                                                         *)
(* Spec        drives the Database methods directly, as a caller of the    *)
(*             store API does (the unit test, the status command).         *)
(* SpecDaemon  runs daemon::run step by step against the same store, with  *)
(*             the wall clock, the Ctrl+C handler and storage failures as   *)
(*             the environment.                                            *)
(* SpecExport  runs the CSV export (src/export.rs) between the writes of a *)
(*             client of the store.                                        *)
(*                                                                         *)
(* Option<T> is modelled as a sequence: <<>> is None, <<x>> is Some(x).     *)
(* Result<T> is a record [ok, v].                                          *)
(***************************************************************************)
EXTENDS Integers, Sequences, FiniteSets, TLC

VARIABLES
    schema,         \* names of the schema objects that exist in the database file
    rows,           \* table readings, in rowid order
    seq,            \* AUTOINCREMENT counter of table readings (largest id handed out)
    ret,            \* the last Database call: [op, arg, val]
    fault,          \* whether the storage layer failed during the last Database call
    nOk,            \* number of insert_reading calls that returned Ok
    pc,             \* position of daemon::run
    battery_paths,  \* run's local: what find_batteries() returned
    interval_secs,  \* run's parameter
    opened,         \* whether run has opened the database
    handlerSet,     \* whether the Ctrl+C handler is installed
    running,        \* the AtomicBool shared with the handler
    timestamp,      \* run's local of the loop body
    idx,            \* position of the for loop over battery_paths
    wall,           \* the system clock, in seconds relative to the Unix epoch
    sleepLeft,      \* seconds left of the current thread::sleep
    runResult,      \* what run returned
    tickNo,         \* number of loop bodies started
    sleepsDone,     \* number of thread::sleep calls that have returned
    rowMeta,        \* per row: the loop body that wrote it and sleepsDone at that time
    cancelAt,       \* where run was when Ctrl+C arrived: <<>> or <<[pc, nrows]>>
    sinceCancel,    \* seconds elapsed since Ctrl+C arrived
    insertErr       \* <<>> or <<[tick, idx, nrows]>> of the insert_reading that failed in run

vars == <<schema, rows, seq, ret, fault, nOk, pc, battery_paths, interval_secs,
          opened, handlerSet, running, timestamp, idx, wall, sleepLeft, runResult,
          tickNo, sleepsDone, rowMeta, cancelAt, sinceCancel, insertErr>>

storeVars == <<schema, rows, seq, ret, fault, nOk>>
daemonVars == <<pc, battery_paths, interval_secs, opened, handlerSet, running,
                timestamp, idx, wall, sleepLeft, runResult, tickNo, sleepsDone,
                rowMeta, cancelAt, sinceCancel, insertErr>>

-----------------------------------------------------------------------------
(* Bounds of the model *)

MaxRows == 3        \* rows a caller of the store API inserts
MaxExportRows == 2  \* rows in the store when the export command runs
MaxTicks == 2       \* loop bodies the daemon starts
MaxInterval == 2    \* largest interval_secs, in seconds

-----------------------------------------------------------------------------
(* Values *)

None == <<>>
Some(x) == <<x>>

\* i64::MIN and i64::MAX, at the width of the model checker's integers
I64_MIN == -2147483647
I64_MAX == 2147483647

BatteryNames == {"BAT0", "BAT1"}

\* timestamps a caller passes to insert_reading, and bounds it passes to get_readings
Timestamps == {I64_MIN, 100, I64_MAX}
QueryBounds == {None, Some(100)}

\* (battery, status text, capacity, power_now, energy_now) a caller passes to
\* insert_reading; an f32 is carried as its number of hundredths (1250 is 12.5)
StoredSamples == {<<"BAT0", "Discharging", Some(85), Some(1250), Some(4000)>>,
                  <<"BAT1", "bogus", None, Some(1200), None>>}

\* values of the system clock
WallClock == {-1, 100, 101}

Ok(v) == [ok |-> TRUE, v |-> v]
Err == [ok |-> FALSE, v |-> <<>>]

unwrap_or(o, d) == IF o = None THEN d ELSE o[1]

-----------------------------------------------------------------------------
(* battery.rs: BatteryStatus and its two conversions *)

BatteryStatus == {"Charging", "Discharging", "Full", "NotCharging", "Unknown"}

Display(s) ==
    CASE s = "Charging" -> "Charging"
      [] s = "Discharging" -> "Discharging"
      [] s = "Full" -> "Full"
      [] s = "NotCharging" -> "Not charging"
      [] OTHER -> "Unknown"

FromStr(s) ==
    CASE s = "Charging" -> "Charging"
      [] s = "Discharging" -> "Discharging"
      [] s = "Full" -> "Full"
      [] s = "Not charging" -> "NotCharging"
      [] OTHER -> "Unknown"

\* what get_battery_info can read for one battery:
\* (status, capacity, power_now, energy_now)
SensorSamples == {<<"NotCharging", Some(85), Some(1250), Some(4000)>>,
                  <<"Unknown", None, Some(1200), None>>}

-----------------------------------------------------------------------------
(* db.rs: the SQL the Database methods run *)

TableReadings == "readings"
SchemaStatements == <<"readings", "idx_readings_timestamp", "idx_readings_battery_time">>

\* mutant: CREATE without IF NOT EXISTS fails on an object that exists
CreateStrict(sch, name) == [schema |-> sch \cup {name}, ok |-> name \notin sch]

\* CREATE TABLE / CREATE INDEX ... IF NOT EXISTS: nothing happens to an object that exists
CreateIfNotExists(sch, name) == [schema |-> sch \cup {name}, ok |-> TRUE]

\* execute_batch: the statements in order, each committed on its own, stopping at
\* the first that fails; the storage layer lets `budget` statements through
RECURSIVE ExecuteBatch(_, _, _)
ExecuteBatch(sch, stmts, budget) ==
    IF stmts = <<>> THEN [schema |-> sch, ok |-> TRUE]
    ELSE IF budget = 0 THEN [schema |-> sch, ok |-> FALSE]
    ELSE LET r == CreateIfNotExists(sch, Head(stmts))
         IN  IF r.ok THEN ExecuteBatch(r.schema, Tail(stmts), budget - 1)
             ELSE [schema |-> r.schema, ok |-> FALSE]

\* mutant: INSERT OR REPLACE under a unique (battery, timestamp) key
InsertOrReplaceRow(rws, id, battery, ts, status, capacity, power_now, energy_now) ==
    LET new == [id |-> id, timestamp |-> ts, battery |-> battery,
                status |-> status, capacity |-> capacity,
                power_now |-> power_now, energy_now |-> energy_now]
        kept == SelectSeq(rws, LAMBDA r : ~(r.battery = battery /\ r.timestamp = ts))
    IN  Append(kept, new)

\* INSERT INTO readings (...) VALUES (...): a new row with the next AUTOINCREMENT id
InsertRow(rws, id, battery, ts, status, capacity, power_now, energy_now) ==
    Append(rws, [id |-> id, timestamp |-> ts, battery |-> battery,
                 status |-> status, capacity |-> capacity,
                 power_now |-> power_now, energy_now |-> energy_now])

\* SELECT COUNT(*) FROM readings
CountRows(rws) == Len(rws)

\* ORDER BY timestamp ASC / DESC: every order of the rows that is sorted on the
\* timestamp column; SQL leaves the order of rows with equal keys to the engine
OrderByTimestamp(m, asc) ==
    LET n == Len(m)
        sorted(q) == \A i, j \in 1..n :
                        i < j => IF asc THEN m[q[i]].timestamp <= m[q[j]].timestamp
                                        ELSE m[q[i]].timestamp >= m[q[j]].timestamp
    IN  { [i \in 1..n |-> m[q[i]]] : q \in {p \in Permutations(1..n) : sorted(p)} }

\* SELECT timestamp FROM readings ORDER BY timestamp <dir> LIMIT 1, through query_row:
\* the first row's column, or the error QueryReturnedNoRows
QueryRowTimestamp(rws, asc) ==
    IF rws = <<>> THEN {Err}
    ELSE { Ok(s[1].timestamp) : s \in OrderByTimestamp(rws, asc) }

FirstDirection == TRUE      \* ORDER BY timestamp ASC
\* mutant: last_timestamp sorts ascending too
LastDirectionAsc == TRUE
LastDirection == FALSE      \* ORDER BY timestamp DESC

\* Result::ok(): an error of any kind becomes None
ResultOk(r) == IF r.ok THEN Some(r.v) ELSE None

\* get_readings: the bounds' defaults
RangeStart(from) == unwrap_or(from, I64_MIN)
RangeEnd(to) == unwrap_or(to, I64_MAX)

\* mutant: the lower bound is exclusive
WhereTimestampExclusive(ts, start, end) == ts > start /\ ts <= end

\* WHERE timestamp >= ?1 AND timestamp <= ?2
WhereTimestamp(ts, start, end) == ts >= start /\ ts <= end

\* the closure of query_map: a row to a Reading
RowToReading(r) ==
    [timestamp |-> r.timestamp, battery |-> r.battery,
     status |-> FromStr(r.status), capacity |-> r.capacity,
     power_now |-> r.power_now, energy_now |-> r.energy_now]

\* the Vec<Reading> values get_readings(from, to) can return on a healthy store
SelectReadings(rws, from, to) ==
    LET start == RangeStart(from)
        end == RangeEnd(to)
        m == SelectSeq(rws, LAMBDA r : WhereTimestamp(r.timestamp, start, end))
    IN  { [i \in 1..Len(s) |-> RowToReading(s[i])] : s \in OrderByTimestamp(m, TRUE) }

HasTable == TableReadings \in schema
Initialized == \A i \in 1..Len(SchemaStatements) : SchemaStatements[i] \in schema

-----------------------------------------------------------------------------
(* db.rs: the Database methods, called by a client of the store *)

Call(op, arg, val) == [op |-> op, arg |-> arg, val |-> val]

\* what a call record of a writing method keeps of the state it was called in
Before == [schema |-> schema, rows |-> rows, nOk |-> nOk]

\* init_scheme; budget < 3 is a storage failure after `budget` statements
init_scheme ==
    \E budget \in 0..Len(SchemaStatements) :
        LET r == ExecuteBatch(schema, SchemaStatements, budget)
        IN  /\ schema' = r.schema
            /\ ret' = Call("init_scheme", Before, IF r.ok THEN Ok(<<>>) ELSE Err)
            /\ fault' = (budget < Len(SchemaStatements))
            /\ UNCHANGED <<rows, seq, nOk>>

insert_reading ==
    /\ Len(rows) < MaxRows
    /\ \E ts \in Timestamps, sample \in StoredSamples, fail \in BOOLEAN :
        /\ fault' = fail
        /\ IF HasTable /\ ~fail
           THEN /\ rows' = InsertRow(rows, seq + 1, sample[1], ts, sample[2], sample[3],
                                 sample[4], sample[5])
                /\ seq' = seq + 1
                /\ nOk' = nOk + 1
                /\ ret' = Call("insert_reading", Before, Ok(<<>>))
           ELSE /\ ret' = Call("insert_reading", Before, Err)
                /\ UNCHANGED <<rows, seq, nOk>>
    /\ UNCHANGED schema

count_readings ==
    /\ \E fail \in BOOLEAN :
        /\ fault' = fail
        /\ ret' = Call("count_readings", <<>>,
                       IF HasTable /\ ~fail THEN Ok(CountRows(rows)) ELSE Err)
    /\ UNCHANGED <<schema, rows, seq, nOk>>

first_timestamp ==
    /\ \E fail \in BOOLEAN :
        /\ fault' = fail
        /\ \E r \in (IF HasTable /\ ~fail
                     THEN QueryRowTimestamp(rows, FirstDirection) ELSE {Err}) :
              ret' = Call("first_timestamp", <<>>, ResultOk(r))
    /\ UNCHANGED <<schema, rows, seq, nOk>>

last_timestamp ==
    /\ \E fail \in BOOLEAN :
        /\ fault' = fail
        /\ \E r \in (IF HasTable /\ ~fail
                     THEN QueryRowTimestamp(rows, LastDirection) ELSE {Err}) :
              ret' = Call("last_timestamp", <<>>, ResultOk(r))
    /\ UNCHANGED <<schema, rows, seq, nOk>>

get_readings ==
    /\ \E from \in QueryBounds, to \in QueryBounds, fail \in BOOLEAN :
        /\ fault' = fail
        /\ IF HasTable /\ ~fail
           THEN \E v \in SelectReadings(rows, from, to) :
                    ret' = Call("get_readings", <<from, to>>, Ok(v))
           ELSE ret' = Call("get_readings", <<from, to>>, Err)
    /\ UNCHANGED <<schema, rows, seq, nOk>>

-----------------------------------------------------------------------------
(* main.rs: the status command *)

\* Result::unwrap_or(0) on the result of count_readings
UnwrapOrZero(r) == IF r.ok THEN r.v ELSE 0

\* Some(Commands::Status): Database::open fails and the error is printed, or
\* init_scheme().expect(..), then "Total readings: {}" is printed with
\* count_readings().unwrap_or(0)
status_command ==
    /\ \/ /\ ret' = Call("status", Before, [out |-> "Database error", count |-> 0])
          /\ fault' = TRUE
          /\ UNCHANGED schema
       \/ \E budget \in 0..Len(SchemaStatements) :
            LET r == ExecuteBatch(schema, SchemaStatements, budget)
            IN  /\ schema' = r.schema
                /\ IF r.ok
                   THEN \E fail \in BOOLEAN :
                          LET counted == IF TableReadings \in r.schema /\ ~fail
                                         THEN Ok(CountRows(rows)) ELSE Err
                          IN  /\ ret' = Call("status", Before,
                                             [out |-> "Total readings",
                                              count |-> UnwrapOrZero(counted)])
                              /\ fault' = fail
                   ELSE /\ ret' = Call("status", Before,
                                       [out |-> "panic: Failed to init schema",
                                        count |-> 0])
                        /\ fault' = TRUE
    /\ UNCHANGED <<rows, seq, nOk>>

-----------------------------------------------------------------------------
(* export.rs and utils.rs: the CSV export.  A line is the sequence of its     *)
(* comma-separated fields.                                                    *)

\* the header written by the first writeln!
CsvHeader ==
    <<"timestamp", "datetime", "battery", "status", "capacity", "power_now",
      "energy_now">>

\* utils::format_timestamp: the local date and time of a timestamp chrono can
\* represent, "Invalid" for one it cannot (here: the two extremes)
format_timestamp(ts) ==
    IF ts > I64_MIN /\ ts < I64_MAX
    THEN "datetime(" \o ToString(ts) \o ")"
    ELSE "Invalid"

\* format!("{:.2}", v), v carried as its number of hundredths
FormatFixed2(c) ==
    LET f == c % 100
    IN  ToString(c \div 100) \o "." \o (IF f < 10 THEN "0" ELSE "") \o ToString(f)

\* mutant: an absent capacity is written as 0
CapacityFieldZero(o) == IF o = None THEN "0" ELSE ToString(o[1])

\* r.capacity.map(|v| v.to_string()).unwrap_or_default()
CapacityField(o) == IF o = None THEN "" ELSE ToString(o[1])

\* r.power_now.map(|v| format!("{:.2}", v)).unwrap_or_default(), and energy_now
Fixed2Field(o) == IF o = None THEN "" ELSE FormatFixed2(o[1])

\* the writeln! of the loop: seven fields, and the empty one after the
\* comma that ends the format string
CsvRecord(r) ==
    <<ToString(r.timestamp), format_timestamp(r.timestamp), r.battery,
      Display(r.status), CapacityField(r.capacity), Fixed2Field(r.power_now),
      Fixed2Field(r.energy_now), "">>

\* write_csv into a writer that accepts `budget` lines and fails on the next:
\* every writeln! is followed by ?, so the first failure ends the function
WriteCsv(readings, budget) ==
    LET all == <<CsvHeader>> \o [i \in 1..Len(readings) |-> CsvRecord(readings[i])]
    IN  IF budget >= Len(all) THEN [ok |-> TRUE, out |-> all]
        ELSE [ok |-> FALSE, out |-> SubSeq(all, 1, budget)]

\* the export command: get_readings(from, to), then write_csv of its result
export_csv ==
    /\ \E from \in QueryBounds, to \in QueryBounds, fail \in BOOLEAN :
        /\ fault' = fail
        /\ IF HasTable /\ ~fail
           THEN \E v \in SelectReadings(rows, from, to) :
                  \E budget \in 0..(Len(v) + 1) :
                    LET w == WriteCsv(v, budget)
                    IN  ret' = Call("export", [from |-> from, to |-> to, readings |-> v],
                                    [ok |-> w.ok, v |-> w.out])
           ELSE ret' = Call("export", [from |-> from, to |-> to, readings |-> <<>>],
                            Err)
    /\ UNCHANGED <<schema, rows, seq, nOk>>

-----------------------------------------------------------------------------
(* The store API under a client: a fresh database file, just opened *)

StoreInit ==
    /\ schema = {}
    /\ rows = <<>>
    /\ seq = 0
    /\ ret = Call("none", <<>>, <<>>)
    /\ fault = FALSE
    /\ nOk = 0

DaemonIdle ==
    /\ pc = "idle"
    /\ battery_paths = <<>>
    /\ interval_secs = 0
    /\ opened = TRUE
    /\ handlerSet = FALSE
    /\ running = TRUE
    /\ timestamp = 0
    /\ idx = 0
    /\ wall = 100
    /\ sleepLeft = 0
    /\ runResult = None
    /\ tickNo = 0
    /\ sleepsDone = 0
    /\ rowMeta = <<>>
    /\ cancelAt = <<>>
    /\ sinceCancel = 0
    /\ insertErr = <<>>

Init == StoreInit /\ DaemonIdle

Next ==
    \/ init_scheme /\ UNCHANGED daemonVars
    \/ insert_reading /\ UNCHANGED daemonVars
    \/ count_readings /\ UNCHANGED daemonVars
    \/ first_timestamp /\ UNCHANGED daemonVars
    \/ last_timestamp /\ UNCHANGED daemonVars
    \/ get_readings /\ UNCHANGED daemonVars
    \/ status_command /\ UNCHANGED daemonVars

Spec == Init /\ [][Next]_vars

\* the export command run at any time between the writes of a client
ExportNext ==
    \/ init_scheme /\ UNCHANGED daemonVars
    \/ Len(rows) < MaxExportRows /\ insert_reading /\ UNCHANGED daemonVars
    \/ export_csv /\ UNCHANGED daemonVars

SpecExport == Init /\ [][ExportNext]_vars

-----------------------------------------------------------------------------
(* daemon.rs *)

\* unix_timestamp(): a clock before the epoch makes duration_since fail,
\* and unwrap_or_default() turns that into zero seconds
unix_timestamp == IF wall < 0 THEN 0 ELSE wall

\* find_batteries() as run sees it
BatteryLists == {<<>>, <<"BAT0">>, <<"BAT0", "BAT1">>}

ErrNoBattery == "Err(No battery found)"
ErrOpen == "Err(open)"
ErrInitScheme == "Err(init_scheme)"
ErrSetHandler == "Err(set_handler)"
ErrInsert == "Err(insert_reading)"
RunOk == "Ok(())"

\* mutant: the check for an empty battery list is missing
NoBatteryUnchecked == FALSE

\* if battery_paths.is_empty()
NoBattery == battery_paths = <<>>

\* mutant: the loop does not look at the flag
LoopForever == TRUE

\* while running.load(SeqCst)
LoopCondition == running

\* mutant: the clock is read again for every battery
TickTimestampPerBattery == unix_timestamp

\* the timestamp argument of insert_reading in the for loop
TickTimestamp == timestamp

\* mutant: a failed insert is tried again
InsertErrorRetry == "for"

\* where run goes when insert_reading returns Err: the ? operator returns from run
InsertErrorPc == "returned"

\* mutant: the for loop stops when the flag is cleared
ForLoopDoneOrCancelled == idx > Len(battery_paths) \/ ~running

\* the for loop over battery_paths has no element left
ForLoopDone == idx > Len(battery_paths)

\* mutant: the loop body does not sleep
AfterForNoSleep == "while"

\* where run goes after the for loop
AfterForPc == "sleep"

Return(result) ==
    /\ pc' = "returned"
    /\ runResult' = Some(result)

RunStart ==
    /\ pc = "start"
    /\ IF NoBattery
       THEN Return(ErrNoBattery)
       ELSE pc' = "open" /\ UNCHANGED runResult
    /\ UNCHANGED <<storeVars, battery_paths, interval_secs, opened, handlerSet, running,
                   timestamp, idx, wall, sleepLeft, tickNo, sleepsDone, rowMeta,
                   cancelAt, sinceCancel, insertErr>>

RunOpen ==
    /\ pc = "open"
    /\ \E fail \in BOOLEAN :
        IF fail
        THEN Return(ErrOpen) /\ UNCHANGED opened
        ELSE pc' = "init_scheme" /\ opened' = TRUE /\ UNCHANGED runResult
    /\ UNCHANGED <<storeVars, battery_paths, interval_secs, handlerSet, running,
                   timestamp, idx, wall, sleepLeft, tickNo, sleepsDone, rowMeta,
                   cancelAt, sinceCancel, insertErr>>

RunInitScheme ==
    /\ pc = "init_scheme"
    /\ init_scheme
    /\ IF ret'.val.ok
       THEN pc' = "set_handler" /\ UNCHANGED runResult
       ELSE Return(ErrInitScheme)
    /\ UNCHANGED <<battery_paths, interval_secs, opened, handlerSet, running,
                   timestamp, idx, wall, sleepLeft, tickNo, sleepsDone, rowMeta,
                   cancelAt, sinceCancel, insertErr>>

RunSetHandler ==
    /\ pc = "set_handler"
    /\ \E fail \in BOOLEAN :
        IF fail
        THEN Return(ErrSetHandler) /\ UNCHANGED handlerSet
        ELSE pc' = "while" /\ handlerSet' = TRUE /\ UNCHANGED runResult
    /\ UNCHANGED <<storeVars, battery_paths, interval_secs, opened, running,
                   timestamp, idx, wall, sleepLeft, tickNo, sleepsDone, rowMeta,
                   cancelAt, sinceCancel, insertErr>>

RunWhile ==
    /\ pc = "while"
    /\ IF LoopCondition
       THEN /\ tickNo < MaxTicks
            /\ pc' = "stamp"
            /\ UNCHANGED runResult
       ELSE Return(RunOk)
    /\ UNCHANGED <<storeVars, battery_paths, interval_secs, opened, handlerSet, running,
                   timestamp, idx, wall, sleepLeft, tickNo, sleepsDone, rowMeta,
                   cancelAt, sinceCancel, insertErr>>

RunStamp ==
    /\ pc = "stamp"
    /\ timestamp' = unix_timestamp
    /\ tickNo' = tickNo + 1
    /\ idx' = 1
    /\ pc' = "for"
    /\ UNCHANGED <<storeVars, battery_paths, interval_secs, opened, handlerSet, running,
                   wall, sleepLeft, runResult, sleepsDone, rowMeta, cancelAt,
                   sinceCancel, insertErr>>

\* one iteration of the for loop: get_battery_info, then insert_reading
RunInsert ==
    /\ pc = "for"
    /\ idx <= Len(battery_paths)
    /\ \E sample \in SensorSamples, fail \in BOOLEAN :
        /\ fault' = fail
        /\ IF HasTable /\ ~fail
           THEN /\ rows' = InsertRow(rows, seq + 1, battery_paths[idx], TickTimestamp,
                                     Display(sample[1]), sample[2], sample[3],
                                     sample[4])
                /\ seq' = seq + 1
                /\ nOk' = nOk + 1
                /\ ret' = Call("insert_reading", Before, Ok(<<>>))
                /\ rowMeta' = Append(rowMeta, [tick |-> tickNo, sleeps |-> sleepsDone])
                /\ idx' = idx + 1
                /\ pc' = "for"
                /\ UNCHANGED <<runResult, insertErr>>
           ELSE /\ ret' = Call("insert_reading", Before, Err)
                /\ insertErr' = Some([tick |-> tickNo, idx |-> idx, rows |-> rows])
                /\ pc' = InsertErrorPc
                /\ runResult' = IF InsertErrorPc = "returned" THEN Some(ErrInsert)
                                ELSE runResult
                /\ UNCHANGED <<rows, seq, nOk, rowMeta, idx>>
    /\ UNCHANGED <<schema, battery_paths, interval_secs, opened, handlerSet, running,
                   timestamp, wall, sleepLeft, tickNo, sleepsDone, cancelAt, sinceCancel>>

\* the for loop is over: thread::sleep(Duration::from_secs(interval_secs)) begins
RunForDone ==
    /\ pc = "for"
    /\ ForLoopDone
    /\ pc' = AfterForPc
    /\ sleepLeft' = interval_secs
    /\ UNCHANGED <<storeVars, battery_paths, interval_secs, opened, handlerSet, running,
                   timestamp, idx, wall, runResult, tickNo, sleepsDone, rowMeta,
                   cancelAt, sinceCancel, insertErr>>

\* one second passes while run sleeps
Elapse ==
    /\ pc = "sleep"
    /\ sleepLeft > 0
    /\ sleepLeft' = sleepLeft - 1
    /\ sinceCancel' = IF cancelAt # None THEN sinceCancel + 1 ELSE sinceCancel
    /\ UNCHANGED <<storeVars, pc, battery_paths, interval_secs, opened, handlerSet,
                   running, timestamp, idx, wall, runResult, tickNo, sleepsDone,
                   rowMeta, cancelAt, insertErr>>

\* thread::sleep returns
RunWake ==
    /\ pc = "sleep"
    /\ sleepLeft = 0
    /\ sleepsDone' = sleepsDone + 1
    /\ pc' = "while"
    /\ UNCHANGED <<storeVars, battery_paths, interval_secs, opened, handlerSet, running,
                   timestamp, idx, wall, sleepLeft, runResult, tickNo, rowMeta,
                   cancelAt, sinceCancel, insertErr>>

\* Ctrl+C: the handler installed by run stores false into running
CtrlC ==
    /\ handlerSet
    /\ pc # "returned"
    /\ running
    /\ running' = FALSE
    /\ cancelAt' = Some([pc |-> pc, rows |-> rows, tick |-> tickNo, idx |-> idx])
    /\ UNCHANGED <<storeVars, pc, battery_paths, interval_secs, opened, handlerSet,
                   timestamp, idx, wall, sleepLeft, runResult, tickNo, sleepsDone,
                   rowMeta, sinceCancel, insertErr>>

\* the system clock is set to another value
ClockChange ==
    /\ pc \notin {"start", "returned"}
    /\ \E w \in WallClock \ {wall} : wall' = w
    /\ UNCHANGED <<storeVars, pc, battery_paths, interval_secs, opened, handlerSet,
                   running, timestamp, idx, sleepLeft, runResult, tickNo, sleepsDone,
                   rowMeta, cancelAt, sinceCancel, insertErr>>

DaemonInit ==
    /\ StoreInit
    /\ pc = "start"
    /\ battery_paths \in BatteryLists
    /\ interval_secs \in 0..MaxInterval
    /\ opened = FALSE
    /\ handlerSet = FALSE
    /\ running = TRUE
    /\ timestamp = 0
    /\ idx = 0
    /\ wall \in WallClock
    /\ sleepLeft = 0
    /\ runResult = None
    /\ tickNo = 0
    /\ sleepsDone = 0
    /\ rowMeta = <<>>
    /\ cancelAt = None
    /\ sinceCancel = 0
    /\ insertErr = None

DaemonNext ==
    \/ RunStart
    \/ RunOpen
    \/ RunInitScheme
    \/ RunSetHandler
    \/ RunWhile
    \/ RunStamp
    \/ RunInsert
    \/ RunForDone
    \/ Elapse
    \/ RunWake
    \/ CtrlC
    \/ ClockChange

SpecDaemon == DaemonInit /\ [][DaemonNext]_vars

-----------------------------------------------------------------------------
(* Properties of the store, under Spec *)

Range(s) == { s[i] : i \in DOMAIN s }
Times(s, x) == Cardinality({ i \in DOMAIN s : s[i] = x })
MinTimestamp(v) ==
    /\ \E i \in DOMAIN rows : rows[i].timestamp = v
    /\ \A i \in DOMAIN rows : rows[i].timestamp >= v
MaxTimestamp(v) ==
    /\ \E i \in DOMAIN rows : rows[i].timestamp = v
    /\ \A i \in DOMAIN rows : rows[i].timestamp <= v

\* C1: get_readings(from, to) on a healthy store returns exactly the stored readings
\* with from <= timestamp <= to, each as often as it is stored; an absent from is
\* the smallest timestamp, an absent to the largest; without bounds every row.
C1_RangeQuery ==
    ret.op = "get_readings" =>
        /\ (HasTable /\ ~fault) => ret.val.ok
        /\ ret.val.ok =>
            LET from == ret.arg[1]
                to == ret.arg[2]
                lo == IF from = None THEN I64_MIN ELSE from[1]
                hi == IF to = None THEN I64_MAX ELSE to[1]
                res == ret.val.v
                stored == [j \in DOMAIN rows |-> RowToReading(rows[j])]
            IN  /\ \A rd \in Range(res) \cup Range(stored) :
                      Times(res, rd) =
                          Cardinality({ j \in DOMAIN rows :
                                           /\ stored[j] = rd
                                           /\ lo <= rows[j].timestamp
                                           /\ rows[j].timestamp <= hi })
                /\ (from = None /\ to = None) => Len(res) = Len(rows)

C1_Witness ==
    /\ ret.op = "get_readings"
    /\ ret.val.ok
    /\ ret.arg = <<Some(100), Some(100)>>
    /\ Len(rows) = 3
    /\ { rows[i].timestamp : i \in DOMAIN rows } = {I64_MIN, 100, I64_MAX}
    /\ Len(ret.val.v) = 1
    /\ ret.val.v[1].timestamp = 100

\* the rows of m in (timestamp, id) order
InsertionOrder(m) ==
    CHOOSE s \in OrderByTimestamp(m, TRUE) :
        \A i, j \in DOMAIN s :
            (i < j /\ s[i].timestamp = s[j].timestamp) => s[i].id < s[j].id

\* C2: the result of get_readings is non-decreasing in timestamp, and rows with
\* equal timestamps appear in insertion (id) order.
C2_TieOrder ==
    (ret.op = "get_readings" /\ ret.val.ok) =>
        LET from == ret.arg[1]
            to == ret.arg[2]
            lo == IF from = None THEN I64_MIN ELSE from[1]
            hi == IF to = None THEN I64_MAX ELSE to[1]
            m == SelectSeq(rows, LAMBDA r : lo <= r.timestamp /\ r.timestamp <= hi)
            expected == InsertionOrder(m)
        IN  ret.val.v = [i \in DOMAIN expected |-> RowToReading(expected[i])]

\* C3: count_readings() is the number of insert_reading calls that returned Ok,
\* duplicates of (battery, timestamp) included, and an insert only appends: the
\* rows stored before it stay as they are, in place, and a successful insert adds
\* exactly one row after them.
C3_AppendOnly ==
    /\ ret.op = "count_readings" =>
          /\ (Initialized /\ ~fault) => ret.val.ok
          /\ ret.val.ok => ret.val.v = nOk
    /\ ret.op = "insert_reading" =>
          /\ SubSeq(rows, 1, Len(ret.arg.rows)) = ret.arg.rows
          /\ IF ret.val.ok
             THEN Len(rows) = Len(ret.arg.rows) + 1 /\ nOk = ret.arg.nOk + 1
             ELSE rows = ret.arg.rows /\ nOk = ret.arg.nOk
          /\ (Initialized /\ ~fault) => ret.val.ok

C3_Witness ==
    /\ ret.op = "count_readings"
    /\ ret.val.ok
    /\ ret.val.v = 3
    /\ rows[1].battery = rows[2].battery
    /\ rows[1].timestamp = rows[2].timestamp

AllInitialized(sch) == \A i \in 1..Len(SchemaStatements) : SchemaStatements[i] \in sch

\* C4: init_scheme on an initialized store changes neither the schema nor any row
\* (count and every range query give what they gave before), and it returns Ok
\* unless the storage layer itself fails.
C4_IdempotentInit ==
    (ret.op = "init_scheme" /\ AllInitialized(ret.arg.schema)) =>
        /\ schema = ret.arg.schema
        /\ rows = ret.arg.rows
        /\ CountRows(rows) = CountRows(ret.arg.rows)
        /\ \A from \in QueryBounds, to \in QueryBounds :
              SelectReadings(rows, from, to) = SelectReadings(ret.arg.rows, from, to)
        /\ ~fault => ret.val.ok

C4_Witness ==
    /\ ret.op = "init_scheme"
    /\ AllInitialized(ret.arg.schema)
    /\ ret.val.ok
    /\ Len(rows) >= 2

\* C10: on an initialized, healthy store first_timestamp() and last_timestamp() are
\* the smallest and the largest stored timestamp; on an empty one both are None,
\* count_readings() is 0 and get_readings is empty for any bounds.
C10_FirstLast ==
    (Initialized /\ ~fault) =>
        /\ ret.op = "first_timestamp" =>
              IF rows = <<>> THEN ret.val = None
              ELSE ret.val # None /\ MinTimestamp(ret.val[1])
        /\ ret.op = "last_timestamp" =>
              IF rows = <<>> THEN ret.val = None
              ELSE ret.val # None /\ MaxTimestamp(ret.val[1])
        /\ (ret.op = "count_readings" /\ rows = <<>>) => ret.val = Ok(0)
        /\ (ret.op = "get_readings" /\ rows = <<>>) => ret.val = Ok(<<>>)

C10_Witness ==
    /\ Initialized
    /\ ~fault
    /\ ret.op = "last_timestamp"
    /\ Len(rows) = 3
    /\ rows[1].timestamp = I64_MAX
    /\ rows[2].timestamp = I64_MIN
    /\ rows[3].timestamp = 100
    /\ ret.val = Some(I64_MAX)

-----------------------------------------------------------------------------
(* Properties of the daemon, under SpecDaemon *)

\* C5: all rows written by one loop body carry the same timestamp, whatever the
\* system clock did while the loop body ran.
C5_TickTimestamp ==
    \A i, j \in DOMAIN rows :
        rowMeta[i].tick = rowMeta[j].tick => rows[i].timestamp = rows[j].timestamp

\* both batteries of the second loop body are written, the loop body is not over,
\* and the clock no longer shows the timestamp it captured
C5_Witness ==
    /\ pc = "for"
    /\ tickNo = 2
    /\ idx = 3
    /\ Len(rows) = 4
    /\ rowMeta[3].tick = 2 /\ rowMeta[4].tick = 2
    /\ rows[3].battery # rows[4].battery
    /\ rows[3].timestamp = rows[4].timestamp
    /\ unix_timestamp # timestamp

BetweenTicks == {"sleep", "while"}

\* C6: when Ctrl+C arrives between two loop bodies (run sleeps, or is about to
\* test the flag), run writes no row after it, starts no loop body, is at its
\* return at the latest when the sleep in progress ends, which is at most
\* interval_secs later, returns Ok, and until then always has a step to take.
C6_CancelBetweenTicks ==
    (cancelAt # None /\ cancelAt[1].pc \in BetweenTicks) =>
        /\ rows = cancelAt[1].rows
        /\ tickNo = cancelAt[1].tick
        /\ sinceCancel <= interval_secs
        /\ pc \in BetweenTicks \cup {"returned"}
        /\ pc = "sleep" => sinceCancel + sleepLeft <= interval_secs
        /\ pc = "returned" => runResult = Some(RunOk)
        /\ pc # "returned" => ENABLED (Elapse \/ RunWake \/ RunWhile)

C6_Witness ==
    /\ cancelAt # None
    /\ cancelAt[1].pc = "sleep"
    /\ pc = "returned"
    /\ interval_secs = 2
    /\ sinceCancel = 1
    /\ Len(rows) = 2

\* C7 as claimed: no row is inserted before the first interval wait has completed.
C7_FirstTickAfterInterval ==
    \A i \in DOMAIN rows : rowMeta[i].sleeps >= 1

\* C7 as amended: the first loop body runs at once, with no interval wait before
\* it, and each later one runs after exactly one more complete wait of
\* interval_secs: the rows of the k-th loop body are written after k - 1 waits.
C7_FirstTickImmediate ==
    /\ \A i \in DOMAIN rows : rowMeta[i].sleeps = rowMeta[i].tick - 1
    /\ pc \in {"stamp", "for"} => sleepsDone = (IF pc = "for" THEN tickNo - 1 ELSE tickNo)
    /\ pc = "sleep" => sleepLeft <= interval_secs

C7_Witness ==
    /\ Len(rows) = 2
    /\ rowMeta[1].tick = 1 /\ rowMeta[1].sleeps = 0
    /\ rowMeta[2].tick = 2 /\ rowMeta[2].sleeps = 1
    /\ interval_secs = 2

\* C8: with no battery run returns the no-battery error from its first step: the
\* database is not opened, no schema object is created and no row is written.
C8_NoBattery ==
    battery_paths = <<>> =>
        /\ pc \in {"start", "returned"}
        /\ pc = "returned" => runResult = Some(ErrNoBattery)
        /\ ~opened
        /\ schema = {}
        /\ rows = <<>>
        /\ ret.op = "none"

C8_Witness ==
    /\ battery_paths = <<>>
    /\ pc = "returned"
    /\ runResult = Some(ErrNoBattery)

\* C9: once an insert_reading of run has failed, run has returned that error: the
\* store holds the rows it held before the failing call, no more (neither the
\* other batteries of that loop body, nor a retry, nor a later loop body).
C9_InsertFatal ==
    insertErr # None =>
        /\ pc = "returned"
        /\ runResult = Some(ErrInsert)
        /\ rows = insertErr[1].rows
        /\ tickNo = insertErr[1].tick
        /\ idx = insertErr[1].idx

C9_Witness ==
    /\ insertErr # None
    /\ Len(battery_paths) = 2
    /\ insertErr[1].tick = 2
    /\ insertErr[1].idx = 1
    /\ Len(rows) = 2
    /\ pc = "returned"

-----------------------------------------------------------------------------
(* Properties of the export, under SpecExport *)

\* C11: a completed export has written the header line and then one line per
\* Reading the range query returned, in that order (the header alone for an empty
\* result); a line carries its Reading's timestamp, battery and status, and a
\* field is empty exactly when the Reading's optional value is absent.
C11_ExportLines ==
    (ret.op = "export" /\ ret.val.ok) =>
        LET rd == ret.arg.readings
            out == ret.val.v
        IN  /\ rd \in SelectReadings(rows, ret.arg.from, ret.arg.to)
            /\ Len(out) = Len(rd) + 1
            /\ out[1] = <<"timestamp", "datetime", "battery", "status", "capacity",
                          "power_now", "energy_now">>
            /\ \A i \in DOMAIN rd :
                  /\ out[i + 1][1] = ToString(rd[i].timestamp)
                  /\ out[i + 1][3] = rd[i].battery
                  /\ out[i + 1][4] = Display(rd[i].status)
                  /\ (out[i + 1][5] = "") <=> (rd[i].capacity = None)
                  /\ (out[i + 1][6] = "") <=> (rd[i].power_now = None)
                  /\ (out[i + 1][7] = "") <=> (rd[i].energy_now = None)
                  /\ rd[i].capacity # None => out[i + 1][5] = ToString(rd[i].capacity[1])

C11_Witness ==
    /\ ret.op = "export"
    /\ ret.val.ok
    /\ Len(ret.arg.readings) = 2
    /\ Len(ret.val.v) = 3
    /\ ret.arg.readings[1].capacity = None
    /\ ret.arg.readings[2].capacity # None
    /\ ret.val.v[2][5] = ""
    /\ ret.val.v[3][5] = "85"
    /\ ret.val.v[3][6] = "12.50"

-----------------------------------------------------------------------------
(* Failures of the storage layer, under Spec *)

\* C12: a storage-layer failure during count, first_timestamp or last_timestamp
\* reaches the caller as an error: on a store that holds rows, a failed query is
\* never reported as an absent timestamp, and a failed count never as a count.
C12_FailurePropagates ==
    (fault /\ Initialized /\ rows # <<>>) =>
        /\ ret.op = "count_readings" => ~ret.val.ok
        /\ ret.op = "first_timestamp" => ret.val # None
        /\ ret.op = "last_timestamp" => ret.val # None
        /\ ret.op = "status" => ret.val.out # "Total readings"

-----------------------------------------------------------------------------
(* Cancellation during a loop body, under SpecDaemon *)

MidTick == {"stamp", "for"}

\* the loop body that was in progress when Ctrl+C arrived
CancelledTick == IF cancelAt[1].pc = "stamp" THEN cancelAt[1].tick + 1 ELSE cancelAt[1].tick

\* the rows are whole loop bodies: every loop body started has written one row
\* for every battery, in the order of battery_paths
WholeTicks ==
    LET n == Len(battery_paths)
    IN  /\ Len(rows) = tickNo * n
        /\ \A i \in DOMAIN rows :
              /\ rowMeta[i].tick = ((i - 1) \div n) + 1
              /\ rows[i].battery = battery_paths[((i - 1) % n) + 1]

\* C13: Ctrl+C takes effect only where run tests the flag.  When it arrives during
\* a loop body, run starts no later loop body, and unless an insert fails it goes
\* on to write the row of every battery of that loop body before it sleeps and
\* returns; and whenever run returns Ok the rows are whole loop bodies.
C13_CancelMidTick ==
    /\ (cancelAt # None /\ cancelAt[1].pc \in MidTick) =>
          /\ tickNo <= CancelledTick
          /\ pc \in {"sleep", "while"} \/ runResult = Some(RunOk) =>
                (tickNo = CancelledTick /\ WholeTicks)
          /\ (pc = "for" /\ idx <= Len(battery_paths)) => ENABLED RunInsert
          /\ (pc = "for" /\ idx <= Len(battery_paths)) => ~ENABLED RunForDone
          /\ pc = "returned" => runResult \in {Some(RunOk), Some(ErrInsert)}
    /\ runResult = Some(RunOk) => WholeTicks

\* Ctrl+C arrived in the second loop body between its two inserts, and run has
\* returned Ok with all four rows
C13_Witness ==
    /\ cancelAt # None
    /\ cancelAt[1].pc = "for"
    /\ cancelAt[1].tick = 2
    /\ cancelAt[1].idx = 2
    /\ Len(cancelAt[1].rows) = 3
    /\ Len(battery_paths) = 2
    /\ pc = "returned"
    /\ runResult = Some(RunOk)
    /\ Len(rows) = 4

====
